---- MODULE Spec2Model ----
(***************************************************************************)
(* GitTTY: the repository synchronisation engine (modules/git_operations)  *)
(* and the frequent-repository registry (modules/config_manager).          *)
(*                                                                         *)
(* Three specifications share the module:                                  *)
(*   Spec          one clone_repository / pull_repository call, with the   *)
(*                 child process, its two pipes and the spinner thread;    *)
(*   SpecRegistry  the registry files under load / add / remove;           *)
(*   SpecAdd       add_frequent_repo calls alone, from an empty registry.  *)
(***************************************************************************)
EXTENDS Integers, Sequences, FiniteSets, TLC

\* ------------------------------------------------------------------ bounds
\* Most lines a child process writes before it exits.
MaxWrites == 3
\* Lines an OS pipe holds before a write to it blocks.
PipeCap == 2
\* Most lines of the legacy frequent_repos.txt.
MaxLines == 2

\* -------------------------------------------------------------------- text
\* A text is a sequence of tokens (words or whitespace); str.lower(),
\* str.strip() and the "in" operator work on it token by token.
Lower(tok) ==
    CASE tok = "Repository" -> "repository"
      [] tok = "Authentication" -> "authentication"
      [] tok = "FAILED" -> "failed"
      [] tok = "Not" -> "not"
      [] OTHER -> tok

LowerText(t) == [i \in DOMAIN t |-> Lower(t[i])]

IsSpace(tok) == tok \in {" ", "\n"}

RECURSIVE LStrip(_)
LStrip(t) == IF t # <<>> /\ IsSpace(Head(t)) THEN LStrip(Tail(t)) ELSE t

RECURSIVE RStrip(_)
RStrip(t) ==
    IF t # <<>> /\ IsSpace(t[Len(t)]) THEN RStrip(SubSeq(t, 1, Len(t) - 1)) ELSE t

Strip(t) == RStrip(LStrip(t))

\* Python's  p in t  for strings.
Contains(t, p) ==
    \E i \in 0..(Len(t) - Len(p)) : \A j \in 1..Len(p) : t[i + j] = p[j]

RECURSIVE Flatten(_)
Flatten(lines) == IF lines = <<>> THEN <<>> ELSE Head(lines) \o Flatten(Tail(lines))

\* The phrases translate_git_error looks for.
PhraseNotFound == <<"repository", "not", "found">>
PhraseAuth == <<"authentication", "failed">>
PhraseSsh == <<"permission", "denied", "(publickey)">>
PhraseDns == <<"could", "not", "resolve", "host">>
PhraseOverwrite ==
    <<"your", "local changes to the following files would be overwritten by merge">>
PhraseNotRepo == <<"not", "a", "git", "repository">>
PhraseNotEmpty == <<"already", "exists", "and is not an empty directory">>

\* A mutation of translate_git_error: the test for the ssh phrase comes before
\* the test for the authentication phrase.
TranslateSshBeforeAuth(stderr) ==
    LET stderr_lower == LowerText(stderr) IN
    IF Contains(stderr_lower, PhraseNotFound)
      THEN [category |-> "RepositoryNotFound", raw |-> <<>>]
    ELSE IF Contains(stderr_lower, PhraseSsh)
      THEN [category |-> "SshPermissionDenied", raw |-> <<>>]
    ELSE IF Contains(stderr_lower, PhraseAuth)
      THEN [category |-> "AuthenticationFailed", raw |-> <<>>]
    ELSE IF Contains(stderr_lower, PhraseDns)
      THEN [category |-> "DnsResolutionFailed", raw |-> <<>>]
    ELSE IF Contains(stderr_lower, PhraseOverwrite)
      THEN [category |-> "WorkingTreeWouldBeOverwritten", raw |-> <<>>]
    ELSE IF Contains(stderr_lower, PhraseNotRepo)
      THEN [category |-> "NotAGitRepository", raw |-> <<>>]
    ELSE IF Contains(stderr_lower, PhraseNotEmpty)
      THEN [category |-> "DestinationNotEmpty", raw |-> <<>>]
    ELSE [category |-> "Unknown", raw |-> Strip(stderr)]

\* translate_git_error: the message it returns, as the category the message
\* names and, for the fallback message, the raw text it embeds.
translate_git_error(stderr) ==
    LET stderr_lower == LowerText(stderr) IN
    IF Contains(stderr_lower, PhraseNotFound)
      THEN [category |-> "RepositoryNotFound", raw |-> <<>>]
    ELSE IF Contains(stderr_lower, PhraseAuth)
      THEN [category |-> "AuthenticationFailed", raw |-> <<>>]
    ELSE IF Contains(stderr_lower, PhraseSsh)
      THEN [category |-> "SshPermissionDenied", raw |-> <<>>]
    ELSE IF Contains(stderr_lower, PhraseDns)
      THEN [category |-> "DnsResolutionFailed", raw |-> <<>>]
    ELSE IF Contains(stderr_lower, PhraseOverwrite)
      THEN [category |-> "WorkingTreeWouldBeOverwritten", raw |-> <<>>]
    ELSE IF Contains(stderr_lower, PhraseNotRepo)
      THEN [category |-> "NotAGitRepository", raw |-> <<>>]
    ELSE IF Contains(stderr_lower, PhraseNotEmpty)
      THEN [category |-> "DestinationNotEmpty", raw |-> <<>>]
    ELSE [category |-> "Unknown", raw |-> Strip(stderr)]

\* ===================================================== synchronisation engine
VARIABLES
    op,          \* "clone" or "pull": the function that was called
    rich,        \* RICH_AVAILABLE
    branch,      \* clone's branch_or_tag argument
    shallow,     \* clone's shallow argument
    isRepo,      \* whether repo_path/.git is a directory (pull)
    pc,          \* where the calling thread is
    spawned,     \* argument vectors handed to subprocess.Popen, in order
    exited,      \* [cmd, rc] of the children the caller saw terminate, in order
    statusOut,   \* stdout of git status --porcelain
    hasChanges,  \* has_changes
    answers,     \* what the operator answered to ask_to_stash_changes, in order
    childState,  \* the clone/pull child: "none", "running" or "exited"
    childProg,   \* the writes that child still has to make
    childExit,   \* the exit code that child ends with
    childErr,    \* the lines that child has written to its stderr so far
    outPipe,     \* lines waiting in the child's stdout pipe
    errPipe,     \* lines waiting in the child's stderr pipe
    spinner,     \* spinner thread: "none", "alive" or "dead"
    spinFrame,   \* position in itertools.cycle(['-', '/', '|', '\\'])
    stderrArg,   \* the text handed to translate_git_error
    category,    \* the category of the message translate_git_error returned
    printed,     \* the kinds of message shown to the operator
    retval       \* the value returned (meaningful once pc = "done")

syncVars ==
    <<op, rich, branch, shallow, isRepo, pc, spawned, exited, statusOut,
      hasChanges, answers, childState, childProg, childExit, childErr, outPipe,
      errPipe, spinner, spinFrame, stderrArg, category, printed, retval>>

None == "<None>"

\* Python truthiness of an optional string.
Truthy(x) == x # None /\ x # ""

Branches == {None, "", "v1"}
ExitCodes == {0, 1}

\* A mutation of CloneCommand: --depth 1 is put before --branch <ref>.
CloneCommandDepthFirst(repo_url, destination_path, branch_or_tag, shallow_) ==
    <<"git", "clone", "--progress">>
      \o (IF shallow_ THEN <<"--depth", "1">> ELSE <<>>)
      \o (IF Truthy(branch_or_tag) THEN <<"--branch", branch_or_tag>> ELSE <<>>)
      \o <<repo_url, destination_path>>

\* command = ["git", "clone", "--progress"] ... command.extend([repo_url, destination_path])
CloneCommand(repo_url, destination_path, branch_or_tag, shallow_) ==
    <<"git", "clone", "--progress">>
      \o (IF Truthy(branch_or_tag) THEN <<"--branch", branch_or_tag>> ELSE <<>>)
      \o (IF shallow_ THEN <<"--depth", "1">> ELSE <<>>)
      \o <<repo_url, destination_path>>

StatusCommand == <<"git", "status", "--porcelain">>
StashPushCommand == <<"git", "stash", "push", "-m", "GitTTY auto-stash before pull">>
PullCommand == <<"git", "pull", "--progress">>
StashPopCommand == <<"git", "stash", "pop">>

\* What git status --porcelain may print.
StatusOutputs == {<<>>, <<"\n">>, <<" ", "M file", "\n">>}

\* What the clone/pull child may write: a line to stdout or a line to stderr.
ErrLines == {<<"fatal:", "Repository", "not", "found", "\n">>, <<"boom", "\n">>}
Writes == [fd : {"out"}, line : {<<"ok", "\n">>}] \cup [fd : {"err"}, line : ErrLines]
ChildPrograms == UNION {[1..n -> Writes] : n \in 0..MaxWrites}

\* process.poll() is None
PollIsNone == childState # "exited"
returncode == childExit

SyncInit ==
    /\ op \in {"clone", "pull"}
    /\ rich \in BOOLEAN
    /\ branch \in (IF op = "clone" THEN Branches ELSE {None})
    /\ shallow \in (IF op = "clone" THEN BOOLEAN ELSE {FALSE})
    /\ isRepo \in (IF op = "pull" THEN BOOLEAN ELSE {TRUE})
    /\ pc = "start"
    /\ spawned = <<>>
    /\ exited = <<>>
    /\ statusOut = <<>>
    /\ hasChanges = FALSE
    /\ answers = <<>>
    /\ childState = "none"
    /\ childProg = <<>>
    /\ childExit = 0
    /\ childErr = <<>>
    /\ outPipe = <<>>
    /\ errPipe = <<>>
    /\ spinner = "none"
    /\ spinFrame = 0
    /\ stderrArg = <<>>
    /\ category = ""
    /\ printed = {}
    /\ retval = FALSE

\* The registry files (config_manager), declared here so that the actions of
\* the synchronisation engine can leave them alone.
VARIABLES
    jsonFile,    \* frequent_repos.json
    txtFile,     \* frequent_repos.txt, the legacy list
    bakFile,     \* frequent_repos.json.bak
    lastCall     \* the last registry call: function, argument, list loaded, result

regVars == <<jsonFile, txtFile, bakFile, lastCall>>

\* Two processes running add_frequent_repo on the same files (no lock is taken).
VARIABLES
    race         \* per process: its position, its argument and the list it loaded

raceVars == <<race>>

\* A call of translate_git_error on its own.
VARIABLES
    trText,      \* the stderr text handed over
    trResult     \* what the call returned

trVars == <<trText, trResult>>

\* The progress display of advanced_progress_monitor, fed one line at a time.
VARIABLES
    output,          \* the line readline() returned
    progress_info,   \* what parse_git_progress made of it
    progress         \* the bars: main task, its label, receiving and resolving task

progVars == <<output, progress_info, progress>>

vars == <<syncVars, regVars, raceVars, trVars, progVars>>

\* return value: the function prints what it has to say and returns.
Return(value, messages) ==
    /\ pc' = "done"
    /\ retval' = value
    /\ printed' = printed \cup messages

\* subprocess.Popen(command, stdout=PIPE, stderr=PIPE, ...) of the clone or pull
\* command, followed by the start of progress monitoring.
SpawnMonitored(command) ==
    /\ spawned' = Append(spawned, command)
    /\ \E prog \in ChildPrograms, rc \in ExitCodes :
          /\ childProg' = prog
          /\ childExit' = rc
    /\ childState' = "running"
    /\ IF rich
         THEN pc' = "monitor" /\ UNCHANGED spinner
         ELSE pc' = "wait" /\ spinner' = "alive"

\* clone_repository up to Popen and the start of monitoring.
CloneSpawn ==
    /\ op = "clone" /\ pc = "start"
    /\ SpawnMonitored(CloneCommand("url", "dest", branch, shallow))
    /\ UNCHANGED <<op, rich, branch, shallow, isRepo, exited, statusOut, hasChanges,
                   answers, childErr, outPipe, errPipe, spinFrame, stderrArg,
                   category, printed, retval, regVars, raceVars, trVars, progVars>>

\* pull_repository: repo_path/.git is no directory.
PullNotRepo ==
    /\ op = "pull" /\ pc = "start" /\ ~isRepo
    /\ Return(FALSE, {"not_repo"})
    /\ UNCHANGED <<op, rich, branch, shallow, isRepo, spawned, exited, statusOut,
                   hasChanges, answers, childState, childProg, childExit, childErr,
                   outPipe, errPipe, spinner, spinFrame, stderrArg, category, regVars, raceVars, trVars, progVars>>

\* A mutation of StatusSpawn: the status command is spawned without the test
\* for the .git directory.
StatusSpawnUnchecked ==
    /\ op = "pull" /\ pc = "start"
    /\ spawned' = Append(spawned, StatusCommand)
    /\ pc' = "status"
    /\ UNCHANGED <<op, rich, branch, shallow, isRepo, exited, statusOut, hasChanges,
                   answers, childState, childProg, childExit, childErr, outPipe,
                   errPipe, spinner, spinFrame, stderrArg, category, printed, retval,
                   regVars, raceVars, trVars, progVars>>

\* status_process = subprocess.Popen(["git", "status", "--porcelain"], ...)
StatusSpawn ==
    /\ op = "pull" /\ pc = "start" /\ isRepo
    /\ spawned' = Append(spawned, StatusCommand)
    /\ pc' = "status"
    /\ UNCHANGED <<op, rich, branch, shallow, isRepo, exited, statusOut, hasChanges,
                   answers, childState, childProg, childExit, childErr, outPipe,
                   errPipe, spinner, spinFrame, stderrArg, category, printed, retval,
                   regVars, raceVars, trVars, progVars>>

\* A mutation of StatusCommunicate: the status output is not stripped.
StatusCommunicateUnstripped ==
    /\ pc = "status"
    /\ \E out \in StatusOutputs, rc \in ExitCodes :
          /\ statusOut' = out
          /\ hasChanges' = (out # <<>>)
          /\ exited' = Append(exited, [cmd |-> StatusCommand, rc |-> rc])
    /\ pc' = IF hasChanges' THEN "ask_stash" ELSE "pull_spawn"
    /\ UNCHANGED <<op, rich, branch, shallow, isRepo, spawned, answers, childState,
                   childProg, childExit, childErr, outPipe, errPipe, spinner,
                   spinFrame, stderrArg, category, printed, retval, regVars, raceVars,
                   trVars, progVars>>

\* status_output, _ = status_process.communicate(); has_changes = bool(status_output.strip())
StatusCommunicate ==
    /\ pc = "status"
    /\ \E out \in StatusOutputs, rc \in ExitCodes :
          /\ statusOut' = out
          /\ hasChanges' = (Strip(out) # <<>>)
          /\ exited' = Append(exited, [cmd |-> StatusCommand, rc |-> rc])
    /\ pc' = IF hasChanges' THEN "ask_stash" ELSE "pull_spawn"
    /\ UNCHANGED <<op, rich, branch, shallow, isRepo, spawned, answers, childState,
                   childProg, childExit, childErr, outPipe, errPipe, spinner,
                   spinFrame, stderrArg, category, printed, retval, regVars, raceVars, trVars, progVars>>

\* if ask_to_stash_changes():   (before the pull)
AskStash ==
    /\ pc = "ask_stash"
    /\ \E a \in BOOLEAN :
          /\ answers' = Append(answers, a)
          /\ pc' = IF a THEN "stash_spawn" ELSE "pull_spawn"
    /\ printed' = printed \cup {"prompt"}
    /\ UNCHANGED <<op, rich, branch, shallow, isRepo, spawned, exited, statusOut,
                   hasChanges, childState, childProg, childExit, childErr, outPipe,
                   errPipe, spinner, spinFrame, stderrArg, category, retval, regVars, raceVars, trVars, progVars>>

\* stash_process = subprocess.Popen(["git", "stash", "push", "-m", ...], ...)
StashSpawn ==
    /\ pc = "stash_spawn"
    /\ spawned' = Append(spawned, StashPushCommand)
    /\ pc' = "stash_wait"
    /\ UNCHANGED <<op, rich, branch, shallow, isRepo, exited, statusOut, hasChanges,
                   answers, childState, childProg, childExit, childErr, outPipe,
                   errPipe, spinner, spinFrame, stderrArg, category, printed, retval,
                   regVars, raceVars, trVars, progVars>>

\* A mutation of StashWait: the exit code of stash push is not looked at.
StashWaitIgnoresFailure ==
    /\ pc = "stash_wait"
    /\ \E rc \in ExitCodes :
          exited' = Append(exited, [cmd |-> StashPushCommand, rc |-> rc])
    /\ pc' = "pull_spawn"
    /\ UNCHANGED <<op, rich, branch, shallow, isRepo, spawned, statusOut, hasChanges,
                   answers, childState, childProg, childExit, childErr, outPipe,
                   errPipe, spinner, spinFrame, stderrArg, category, printed, retval,
                   regVars, raceVars, trVars, progVars>>

\* stash_process.wait(); if stash_process.returncode != 0: ... return False
StashWait ==
    /\ pc = "stash_wait"
    /\ \E rc \in ExitCodes :
          /\ exited' = Append(exited, [cmd |-> StashPushCommand, rc |-> rc])
          /\ IF rc # 0
               THEN Return(FALSE, {"failed_stash"})
               ELSE pc' = "pull_spawn" /\ UNCHANGED <<retval, printed>>
    /\ UNCHANGED <<op, rich, branch, shallow, isRepo, spawned, statusOut, hasChanges,
                   answers, childState, childProg, childExit, childErr, outPipe,
                   errPipe, spinner, spinFrame, stderrArg, category, regVars, raceVars, trVars, progVars>>

\* process = subprocess.Popen(["git", "pull", "--progress"], ...) and the start
\* of monitoring.
PullSpawn ==
    /\ pc = "pull_spawn"
    /\ SpawnMonitored(PullCommand)
    /\ UNCHANGED <<op, rich, branch, shallow, isRepo, exited, statusOut, hasChanges,
                   answers, childErr, outPipe, errPipe, spinFrame, stderrArg,
                   category, printed, retval, regVars, raceVars, trVars, progVars>>

\* Popen raises (FileNotFoundError: no git executable); the except clause of
\* the function prints the exception and returns False.
AtPopen ==
    IF pc = "start" THEN (op = "clone" \/ isRepo)
    ELSE pc \in {"stash_spawn", "pull_spawn", "pop_spawn"}

SpawnFault ==
    /\ AtPopen
    /\ Return(FALSE, {"unexpected"})
    /\ UNCHANGED <<op, rich, branch, shallow, isRepo, spawned, exited, statusOut,
                   hasChanges, answers, childState, childProg, childExit, childErr,
                   outPipe, errPipe, spinner, spinFrame, stderrArg, category, regVars, raceVars, trVars, progVars>>

\* A mutation of TryBlock: the prompts are left outside the try statement.
TryBlockWithoutPrompts ==
    {"status", "stash_wait", "monitor", "wait", "join", "final", "pop_wait"}

\* The positions of clone_repository and pull_repository, after a Popen has
\* returned, that the try statement of the function encloses (clone: lines
\* 271-315, pull: lines 397-504).
TryBlock ==
    {"status", "ask_stash", "stash_wait", "monitor", "wait", "join", "final",
     "ask_restore", "pop_wait"}

\* Where an exception may be raised once the operation is under way: in
\* communicate(), in the prompt, in wait(), in the progress monitor, in join().
FaultPositions ==
    {"status", "ask_stash", "stash_wait", "monitor", "wait", "join", "final",
     "ask_restore", "pop_wait"}

\* An exception (class Exception) is raised at the current position: inside
\* the try statement the except clause prints it and returns False, outside
\* it the exception leaves the function.
Fault ==
    /\ pc \in FaultPositions
    /\ IF pc \in TryBlock
         THEN Return(FALSE, {"unexpected"})
         ELSE pc' = "raised" /\ UNCHANGED <<retval, printed>>
    /\ UNCHANGED <<op, rich, branch, shallow, isRepo, spawned, exited, statusOut,
                   hasChanges, answers, childState, childProg, childExit, childErr,
                   outPipe, errPipe, spinner, spinFrame, stderrArg, category, regVars,
                   raceVars, trVars, progVars>>

\* ---------------------------------------------- the clone/pull child process
PipeOf(fd) == IF fd = "out" THEN outPipe ELSE errPipe

\* The child's next write(2) would block: the pipe it writes to is full.
ChildBlocked ==
    /\ childState = "running"
    /\ childProg # <<>>
    /\ Len(PipeOf(Head(childProg).fd)) >= PipeCap

\* The child writes its next line into a pipe that has room.
ChildWrite ==
    /\ childState = "running"
    /\ childProg # <<>>
    /\ ~ChildBlocked
    /\ LET w == Head(childProg) IN
         /\ IF w.fd = "out"
              THEN outPipe' = Append(outPipe, w.line) /\ UNCHANGED <<errPipe, childErr>>
              ELSE /\ errPipe' = Append(errPipe, w.line)
                   /\ childErr' = Append(childErr, w.line)
                   /\ UNCHANGED outPipe
    /\ childProg' = Tail(childProg)
    /\ UNCHANGED <<op, rich, branch, shallow, isRepo, pc, spawned, exited, statusOut,
                   hasChanges, answers, childState, childExit, spinner, spinFrame,
                   stderrArg, category, printed, retval, regVars, raceVars, trVars, progVars>>

\* The child has written everything and exits, closing its ends of the pipes.
ChildExit ==
    /\ childState = "running"
    /\ childProg = <<>>
    /\ childState' = "exited"
    /\ UNCHANGED <<op, rich, branch, shallow, isRepo, pc, spawned, exited, statusOut,
                   hasChanges, answers, childProg, childExit, childErr, outPipe,
                   errPipe, spinner, spinFrame, stderrArg, category, printed, retval,
                   regVars, raceVars, trVars, progVars>>

\* --------------------------------------------------- advanced_progress_monitor
\* output = process.stderr.readline() returned a line: the loop handles it and
\* goes round again. Nothing reads process.stdout.
MonitorReadLine ==
    /\ pc = "monitor"
    /\ errPipe # <<>>
    /\ errPipe' = Tail(errPipe)
    /\ UNCHANGED <<op, rich, branch, shallow, isRepo, pc, spawned, exited, statusOut,
                   hasChanges, answers, childState, childProg, childExit, childErr,
                   outPipe, spinner, spinFrame, stderrArg, category, printed, retval,
                   regVars, raceVars, trVars, progVars>>

\* readline() returned "" (end of file) and process.poll() is not None: break.
MonitorBreak ==
    /\ pc = "monitor"
    /\ errPipe = <<>>
    /\ ~PollIsNone
    /\ pc' = "final"
    /\ exited' = Append(exited, [cmd |-> spawned[Len(spawned)], rc |-> returncode])
    /\ UNCHANGED <<op, rich, branch, shallow, isRepo, spawned, statusOut, hasChanges,
                   answers, childState, childProg, childExit, childErr, outPipe,
                   errPipe, spinner, spinFrame, stderrArg, category, printed, retval,
                   regVars, raceVars, trVars, progVars>>

\* ------------------------------------------------ spinner thread and the wait
\* spinner_animation_fallback: while process.poll() is None: print a frame, sleep.
SpinnerTick ==
    /\ spinner = "alive"
    /\ PollIsNone
    /\ spinFrame' = (spinFrame + 1) % 4
    /\ UNCHANGED <<op, rich, branch, shallow, isRepo, pc, spawned, exited, statusOut,
                   hasChanges, answers, childState, childProg, childExit, childErr,
                   outPipe, errPipe, spinner, stderrArg, category, printed, retval,
                   regVars, raceVars, trVars, progVars>>

\* spinner_animation_fallback: the loop condition fails, the line is cleared and
\* the thread ends.
SpinnerExit ==
    /\ spinner = "alive"
    /\ ~PollIsNone
    /\ spinner' = "dead"
    /\ UNCHANGED <<op, rich, branch, shallow, isRepo, pc, spawned, exited, statusOut,
                   hasChanges, answers, childState, childProg, childExit, childErr,
                   outPipe, errPipe, spinFrame, stderrArg, category, printed, retval,
                   regVars, raceVars, trVars, progVars>>

\* A mutation of WaitReturn: the caller goes on without waiting for the child
\* to exit.
WaitReturnEarly ==
    /\ pc = "wait"
    /\ pc' = IF spinner = "alive" THEN "join" ELSE "final"
    /\ exited' = Append(exited, [cmd |-> spawned[Len(spawned)], rc |-> returncode])
    /\ UNCHANGED <<op, rich, branch, shallow, isRepo, spawned, statusOut, hasChanges,
                   answers, childState, childProg, childExit, childErr, outPipe,
                   errPipe, spinner, spinFrame, stderrArg, category, printed, retval,
                   regVars, raceVars, trVars, progVars>>

\* process.wait() returns; if spinner_thread.is_alive(): spinner_thread.join(timeout=1)
WaitReturn ==
    /\ pc = "wait"
    /\ ~PollIsNone
    /\ pc' = IF spinner = "alive" THEN "join" ELSE "final"
    /\ exited' = Append(exited, [cmd |-> spawned[Len(spawned)], rc |-> returncode])
    /\ UNCHANGED <<op, rich, branch, shallow, isRepo, spawned, statusOut, hasChanges,
                   answers, childState, childProg, childExit, childErr, outPipe,
                   errPipe, spinner, spinFrame, stderrArg, category, printed, retval,
                   regVars, raceVars, trVars, progVars>>

\* join(timeout=1) returns because the thread has ended.
JoinDone ==
    /\ pc = "join"
    /\ spinner = "dead"
    /\ pc' = "final"
    /\ UNCHANGED <<op, rich, branch, shallow, isRepo, spawned, exited, statusOut,
                   hasChanges, answers, childState, childProg, childExit, childErr,
                   outPipe, errPipe, spinner, spinFrame, stderrArg, category, printed,
                   retval, regVars, raceVars, trVars, progVars>>

\* join(timeout=1) returns because the second has passed; the thread is still
\* in its print or its sleep.
JoinTimeout ==
    /\ pc = "join"
    /\ spinner = "alive"
    /\ pc' = "final"
    /\ UNCHANGED <<op, rich, branch, shallow, isRepo, spawned, exited, statusOut,
                   hasChanges, answers, childState, childProg, childExit, childErr,
                   outPipe, errPipe, spinner, spinFrame, stderrArg, category, printed,
                   retval, regVars, raceVars, trVars, progVars>>

\* ----------------------------------------------------------- after the child
\* stdout, stderr = process.communicate() if process.poll() is None else ("", "")
\* (communicate() returns what is still unread in each pipe.)
FinalOutput ==
    IF PollIsNone
      THEN [stdout |-> Flatten(outPipe), stderr |-> Flatten(errPipe)]
      ELSE [stdout |-> <<>>, stderr |-> <<>>]

\* print(translate_git_error(stderr)); return False
ReportFailure(stderr) ==
    /\ stderrArg' = stderr
    /\ category' = translate_git_error(stderr).category
    /\ Return(FALSE, {"error"})

\* clone_repository from "Get final output" to its return.
CloneFinish ==
    /\ op = "clone" /\ pc = "final"
    /\ IF returncode = 0
         THEN Return(TRUE, {"success"}) /\ UNCHANGED <<stderrArg, category>>
         ELSE ReportFailure(FinalOutput.stderr)
    /\ UNCHANGED <<op, rich, branch, shallow, isRepo, spawned, exited, statusOut,
                   hasChanges, answers, childState, childProg, childExit, childErr,
                   outPipe, errPipe, spinner, spinFrame, regVars, raceVars, trVars, progVars>>

\* pull_repository from the communicate() line to the test
\* "if has_changes and ask_to_stash_changes()" or to its return.
PullFinish ==
    /\ op = "pull" /\ pc = "final"
    /\ IF returncode = 0
         THEN /\ IF hasChanges
                   THEN pc' = "ask_restore" /\ UNCHANGED <<retval, printed>>
                   ELSE Return(TRUE, {"success"})
              /\ UNCHANGED <<stderrArg, category>>
         ELSE ReportFailure(FinalOutput.stderr)
    /\ UNCHANGED <<op, rich, branch, shallow, isRepo, spawned, exited, statusOut,
                   hasChanges, answers, childState, childProg, childExit, childErr,
                   outPipe, errPipe, spinner, spinFrame, regVars, raceVars, trVars, progVars>>

\* ... and ask_to_stash_changes():   (after the pull has succeeded)
AskRestore ==
    /\ pc = "ask_restore"
    /\ \E a \in BOOLEAN :
          /\ answers' = Append(answers, a)
          /\ IF a
               THEN pc' = "pop_spawn" /\ printed' = printed \cup {"prompt"}
                    /\ UNCHANGED retval
               ELSE Return(TRUE, {"prompt", "success"})
    /\ UNCHANGED <<op, rich, branch, shallow, isRepo, spawned, exited, statusOut,
                   hasChanges, childState, childProg, childExit, childErr, outPipe,
                   errPipe, spinner, spinFrame, stderrArg, category, regVars, raceVars, trVars, progVars>>

\* pop_process = subprocess.Popen(["git", "stash", "pop"], ...)
PopSpawn ==
    /\ pc = "pop_spawn"
    /\ spawned' = Append(spawned, StashPopCommand)
    /\ pc' = "pop_wait"
    /\ UNCHANGED <<op, rich, branch, shallow, isRepo, exited, statusOut, hasChanges,
                   answers, childState, childProg, childExit, childErr, outPipe,
                   errPipe, spinner, spinFrame, stderrArg, category, printed, retval,
                   regVars, raceVars, trVars, progVars>>

\* pop_process.wait(); a warning is printed when it failed; return True
PopWait ==
    /\ pc = "pop_wait"
    /\ \E rc \in ExitCodes :
          /\ exited' = Append(exited, [cmd |-> StashPopCommand, rc |-> rc])
          /\ Return(TRUE, IF rc # 0 THEN {"warn_pop", "success"} ELSE {"success"})
    /\ UNCHANGED <<op, rich, branch, shallow, isRepo, spawned, statusOut, hasChanges,
                   answers, childState, childProg, childExit, childErr, outPipe,
                   errPipe, spinner, spinFrame, stderrArg, category, regVars, raceVars, trVars, progVars>>

\* ------------------------------------------------------------------ registry
Urls == {"u1", "u2"}
Names == {"n1", "n2"}
Paths == {None, "p1"}

\* The records gittty.py and user_interface.py hand to add_frequent_repo.
Records == [name : Names, url : Urls, path : Paths]

\* Contents of a file: a JSON document (a list of objects) or bytes that do
\* not parse as JSON.
NoFile == [fmt |-> "absent", doc |-> <<>>, raw |-> ""]
Garbage == {[fmt |-> "raw", doc |-> <<>>, raw |-> g] : g \in {"{oops", "[[["}}
NoTxt == [exists |-> FALSE, lines |-> <<>>]

\* A mutation of JsonValue: None is written as the string "None".
JsonValueNoneAsText(v) == [t |-> "string", s |-> IF v = None THEN "None" ELSE v]

\* json.dump of one value: None is written as null, a string as a string.
JsonValue(v) == IF v = None THEN [t |-> "null", s |-> ""] ELSE [t |-> "string", s |-> v]

\* json.load of one value.
FromJson(j) == IF j.t = "null" THEN None ELSE j.s

\* json.dump(repos, f, indent=4)
JsonDump(repos) ==
    [fmt |-> "json",
     doc |-> [i \in 1..Len(repos) |->
                [name |-> JsonValue(repos[i].name),
                 url |-> JsonValue(repos[i].url),
                 path |-> JsonValue(repos[i].path)]],
     raw |-> ""]

\* json.load(f) of a file that parses.
JsonLoad(file) ==
    [i \in 1..Len(file.doc) |->
       [name |-> FromJson(file.doc[i].name),
        url |-> FromJson(file.doc[i].url),
        path |-> FromJson(file.doc[i].path)]]

\* Lines of the legacy file; a line holds at most one word.
LegacyLines == {<<"\n">>, <<"u1", "\n">>, <<" ", "u2", " ", "\n">>}
LegacyFiles ==
    {[exists |-> TRUE, lines |-> l] : l \in UNION {[1..n -> LegacyLines] : n \in 0..MaxLines}}

\* The string a stripped one-word line is.
Word(t) == IF t = <<>> THEN "" ELSE t[1]

RECURSIVE SelectNonEmpty(_)
SelectNonEmpty(ws) ==
    IF ws = <<>> THEN <<>>
    ELSE IF Head(ws) # "" THEN <<Head(ws)>> \o SelectNonEmpty(Tail(ws))
    ELSE SelectNonEmpty(Tail(ws))

\* The files, as the functions below take and return them.
Files == [json |-> jsonFile, txt |-> txtFile, bak |-> bakFile]

\* save_frequent_repos(repos)
save_frequent_repos(fs, repos) == [fs EXCEPT !.json = JsonDump(repos)]

\* A mutation of migrate_from_txt_to_json: os.remove is left out.
MigrateKeepsLegacy(fs) ==
    LET urls == SelectNonEmpty([i \in DOMAIN fs.txt.lines |-> Word(Strip(fs.txt.lines[i]))])
        repos == [i \in DOMAIN urls |-> [name |-> urls[i], url |-> urls[i], path |-> None]]
    IN  [repos |-> repos, fs |-> save_frequent_repos(fs, repos)]

\* A mutation of migrate_from_txt_to_json: save_frequent_repos is left out.
MigrateWithoutSave(fs) ==
    LET urls == SelectNonEmpty([i \in DOMAIN fs.txt.lines |-> Word(Strip(fs.txt.lines[i]))])
        repos == [i \in DOMAIN urls |-> [name |-> urls[i], url |-> urls[i], path |-> None]]
    IN  [repos |-> repos, fs |-> [fs EXCEPT !.txt = NoTxt]]

\* _migrate_from_txt_to_json()
migrate_from_txt_to_json(fs) ==
    LET urls == SelectNonEmpty([i \in DOMAIN fs.txt.lines |-> Word(Strip(fs.txt.lines[i]))])
        repos == [i \in DOMAIN urls |-> [name |-> urls[i], url |-> urls[i], path |-> None]]
        saved == save_frequent_repos(fs, repos)
    IN  [repos |-> repos, fs |-> [saved EXCEPT !.txt = NoTxt]]

\* load_frequent_repos(); moveOk says whether shutil.move to the .bak succeeds.
load_frequent_repos(fs, moveOk) ==
    IF fs.json = NoFile
      THEN IF fs.txt.exists
             THEN migrate_from_txt_to_json(fs)
             ELSE [repos |-> <<>>, fs |-> fs]
    ELSE IF fs.json.fmt = "json"
      THEN [repos |-> JsonLoad(fs.json), fs |-> fs]
    ELSE [repos |-> <<>>,
          fs |-> IF moveOk THEN [fs EXCEPT !.bak = fs.json, !.json = NoFile] ELSE fs]

\* next((repo for repo in repos if repo.get("url") == url), None), as the index
\* of that record, 0 for None.
FirstWithUrl(repos, url) ==
    IF \E i \in DOMAIN repos : repos[i].url = url
      THEN CHOOSE i \in DOMAIN repos :
             /\ repos[i].url = url
             /\ \A j \in DOMAIN repos : repos[j].url = url => i <= j
      ELSE 0

\* A mutation of Upsert: the record is appended whether or not its url is there.
UpsertAlwaysAppends(repos, repo_to_add) == Append(repos, repo_to_add)

\* A mutation of Upsert: an existing record is replaced by the new one.
UpsertReplaces(repos, repo_to_add) ==
    LET k == FirstWithUrl(repos, repo_to_add.url) IN
    IF k # 0 THEN [repos EXCEPT ![k] = repo_to_add] ELSE Append(repos, repo_to_add)

\* add_frequent_repo: the list after the if/else on existing_repo.
Upsert(repos, repo_to_add) ==
    LET k == FirstWithUrl(repos, repo_to_add.url) IN
    IF k # 0
      THEN [repos EXCEPT ![k].path = repo_to_add.path]
      ELSE Append(repos, repo_to_add)

\* add_frequent_repo(repo_to_add)
add_frequent_repo(fs, repo_to_add, moveOk) ==
    LET loaded == load_frequent_repos(fs, moveOk) IN
    [loaded |-> loaded.repos,
     fs |-> save_frequent_repos(loaded.fs, Upsert(loaded.repos, repo_to_add))]

\* A mutation of DeleteAt: the index is taken as 1-based.
DeleteAtOneBased(repos, index) ==
    [i \in 1..(Len(repos) - 1) |-> IF i < index THEN repos[i] ELSE repos[i + 1]]

\* del repos[index]
DeleteAt(repos, index) ==
    [i \in 1..(Len(repos) - 1) |-> IF i <= index THEN repos[i] ELSE repos[i + 1]]

\* A mutation of remove_frequent_repo: the range test lets index = len(repos)
\* through.
RemoveOffByOne(fs, index, moveOk) ==
    LET loaded == load_frequent_repos(fs, moveOk) IN
    IF 0 <= index /\ index <= Len(loaded.repos) /\ loaded.repos # <<>>
      THEN [loaded |-> loaded.repos, ret |-> TRUE,
            fs |-> save_frequent_repos(loaded.fs, DeleteAt(loaded.repos, index))]
      ELSE [loaded |-> loaded.repos, ret |-> FALSE, fs |-> loaded.fs]

\* remove_frequent_repo(index), index 0-based
remove_frequent_repo(fs, index, moveOk) ==
    LET loaded == load_frequent_repos(fs, moveOk) IN
    IF 0 <= index /\ index < Len(loaded.repos)
      THEN [loaded |-> loaded.repos, ret |-> TRUE,
            fs |-> save_frequent_repos(loaded.fs, DeleteAt(loaded.repos, index))]
      ELSE [loaded |-> loaded.repos, ret |-> FALSE, fs |-> loaded.fs]

NoRecord == [name |-> "", url |-> "", path |-> None]
NoCall == [fn |-> "none", repo |-> NoRecord, index |-> 0, loaded |-> <<>>, ret |-> FALSE]

SetFiles(fs) ==
    /\ jsonFile' = fs.json
    /\ txtFile' = fs.txt
    /\ bakFile' = fs.bak

\* Whether shutil.move succeeds, where load_frequent_repos comes to call it.
MoveOutcomes == IF jsonFile.fmt = "raw" THEN BOOLEAN ELSE {TRUE}

\* A call of load_frequent_repos (menus, search).
LoadCall ==
    \E moveOk \in MoveOutcomes :
       LET r == load_frequent_repos(Files, moveOk) IN
       /\ SetFiles(r.fs)
       /\ lastCall' = [NoCall EXCEPT !.fn = "load", !.loaded = r.repos]
       /\ UNCHANGED <<syncVars, raceVars, trVars, progVars>>

\* A call of add_frequent_repo.
AddCall ==
    \E repo_to_add \in Records, moveOk \in MoveOutcomes :
       LET r == add_frequent_repo(Files, repo_to_add, moveOk) IN
       /\ SetFiles(r.fs)
       /\ lastCall' = [NoCall EXCEPT !.fn = "add", !.repo = repo_to_add,
                                     !.loaded = r.loaded]
       /\ UNCHANGED <<syncVars, raceVars, trVars, progVars>>

\* Indexes a caller may pass to remove_frequent_repo.
Indexes == (0 - 1)..(MaxLines + Cardinality(Urls))

\* A call of remove_frequent_repo.
RemoveCall ==
    \E index \in Indexes, moveOk \in MoveOutcomes :
       LET r == remove_frequent_repo(Files, index, moveOk) IN
       /\ SetFiles(r.fs)
       /\ lastCall' = [NoCall EXCEPT !.fn = "remove", !.index = index,
                                     !.loaded = r.loaded, !.ret = r.ret]
       /\ UNCHANGED <<syncVars, raceVars, trVars, progVars>>

\* No registry call is under way and no file exists.
RegIdle ==
    /\ jsonFile = NoFile
    /\ txtFile = NoTxt
    /\ bakFile = NoFile
    /\ lastCall = NoCall

\* No clone or pull is under way.
SyncIdle ==
    /\ op = "clone"
    /\ rich = FALSE
    /\ branch = None
    /\ shallow = FALSE
    /\ isRepo = TRUE
    /\ pc = "idle"
    /\ spawned = <<>>
    /\ exited = <<>>
    /\ statusOut = <<>>
    /\ hasChanges = FALSE
    /\ answers = <<>>
    /\ childState = "none"
    /\ childProg = <<>>
    /\ childExit = 0
    /\ childErr = <<>>
    /\ outPipe = <<>>
    /\ errPipe = <<>>
    /\ spinner = "none"
    /\ spinFrame = 0
    /\ stderrArg = <<>>
    /\ category = ""
    /\ printed = {}
    /\ retval = FALSE

\* The files the program may find when it starts: no structured store or one
\* that does not parse, and no legacy file or any legacy file.
RegInit ==
    /\ jsonFile \in {NoFile} \cup Garbage
    /\ txtFile \in {NoTxt} \cup LegacyFiles
    /\ bakFile = NoFile
    /\ lastCall = NoCall

RegNext == LoadCall \/ AddCall \/ RemoveCall

\* No process is inside add_frequent_repo step by step.
Procs == {"p1", "p2"}
RaceIdle ==
    race = [p \in Procs |-> [pc |-> "idle", repo |-> NoRecord, repos |-> <<>>, overlapped |-> FALSE]]

\* translate_git_error has not been called on its own.
NoResult == [category |-> "", raw |-> <<>>]
TrIdle == trText = <<>> /\ trResult = NoResult

\* parse_git_progress returned None.
NoInfo == [type |-> None, percent |-> 0, current |-> 0, total |-> 0,
           size |-> None, speed |-> None]

\* The bars before the first line is read: main_task at 0 of 100, no receiving
\* and no resolving task. The value of the main bar is kept in tenths, so
\* that 90 + percent * 0.1 is a whole number.
NoTask == [added |-> FALSE, total |-> 0, completed |-> 0, speed |-> None]
FirstBars == [main |-> 0, description |-> "operation", receiving_task |-> NoTask,
              resolving_task |-> NoTask]

\* No progress display is running.
ProgIdle == output = <<>> /\ progress_info = NoInfo /\ progress = FirstBars

InitRegistry == SyncIdle /\ RegInit /\ RaceIdle /\ TrIdle /\ ProgIdle

SpecRegistry == InitRegistry /\ [][RegNext]_vars

\* An empty registry: neither file exists.
InitAdd == SyncIdle /\ RegIdle /\ RaceIdle /\ TrIdle /\ ProgIdle

SpecAdd == InitAdd /\ [][AddCall]_vars

\* ------------------------------------------- migration when the save fails
\* How save_frequent_repos ends: the file is written; os.makedirs or open
\* raises and nothing is written; open succeeds and the write is cut short.
SaveOutcomes == {"written", "refused", "truncated"}

\* frequent_repos.json after a write that was cut short.
Truncated == [fmt |-> "raw", doc |-> <<>>, raw |-> "["]

\* The files after save_frequent_repos has raised IOError.
FailedSave(fs, how) ==
    IF how = "refused" THEN fs ELSE [fs EXCEPT !.json = Truncated]

\* A mutation of migrate_with_save: the legacy file is removed before the
\* records are saved.
MigrateRemovesLegacyFirst(fs, how) ==
    IF how = "written"
      THEN migrate_from_txt_to_json(fs)
      ELSE [repos |-> <<>>, fs |-> [FailedSave(fs, how) EXCEPT !.txt = NoTxt]]

\* _migrate_from_txt_to_json() with the outcome of its save: when
\* save_frequent_repos raises, os.remove is not reached and the except clause
\* returns [].
migrate_with_save(fs, how) ==
    IF how = "written"
      THEN migrate_from_txt_to_json(fs)
      ELSE [repos |-> <<>>, fs |-> FailedSave(fs, how)]

\* A call of load_frequent_repos in which the save of a migration may fail.
LoadIoCall ==
    \E moveOk \in MoveOutcomes, how \in SaveOutcomes :
       LET r == IF jsonFile = NoFile /\ txtFile.exists
                  THEN migrate_with_save(Files, how)
                  ELSE load_frequent_repos(Files, moveOk)
       IN  /\ SetFiles(r.fs)
           /\ lastCall' = [NoCall EXCEPT !.fn = "load", !.loaded = r.repos]
           /\ UNCHANGED <<syncVars, raceVars, trVars, progVars>>

SpecMigrate == InitRegistry /\ [][LoadIoCall]_vars

\* ------------------------------------------------------------ specifications
Init == SyncInit /\ RegIdle /\ RaceIdle /\ TrIdle /\ ProgIdle

Next ==
    \/ CloneSpawn
    \/ PullNotRepo
    \/ StatusSpawn
    \/ StatusCommunicate
    \/ AskStash
    \/ StashSpawn
    \/ StashWait
    \/ PullSpawn
    \/ SpawnFault
    \/ Fault
    \/ ChildWrite
    \/ ChildExit
    \/ MonitorReadLine
    \/ MonitorBreak
    \/ SpinnerTick
    \/ SpinnerExit
    \/ WaitReturn
    \/ JoinDone
    \/ JoinTimeout
    \/ CloneFinish
    \/ PullFinish
    \/ AskRestore
    \/ PopSpawn
    \/ PopWait

Spec == Init /\ [][Next]_vars

\* The steps of the thread that called clone_repository or pull_repository.
MainStep ==
    \/ CloneSpawn
    \/ PullNotRepo
    \/ StatusSpawn
    \/ StatusCommunicate
    \/ AskStash
    \/ StashSpawn
    \/ StashWait
    \/ PullSpawn
    \/ MonitorReadLine
    \/ MonitorBreak
    \/ WaitReturn
    \/ JoinDone
    \/ JoinTimeout
    \/ CloneFinish
    \/ PullFinish
    \/ AskRestore
    \/ PopSpawn
    \/ PopWait

\* The steps of the spinner thread.
SpinnerStep == SpinnerTick \/ SpinnerExit

\* The two threads of the tool keep running; nothing is assumed of the child
\* process, which may stop writing and never exit.
SpecChildMayHang ==
    Init /\ [][Next]_vars /\ WF_vars(MainStep) /\ WF_vars(SpinnerStep)

\* Two invocations of the tool, each inside add_frequent_repo for a url of its
\* own; the files are shared and nothing locks them.
RaceInit ==
    \E r1, r2 \in Records :
       /\ r1.url # r2.url
       /\ race = [p \in Procs |->
                    [pc |-> "idle", repo |-> IF p = "p1" THEN r1 ELSE r2,
                     repos |-> <<>>, overlapped |-> FALSE]]

\* add_frequent_repo, first step: repos = load_frequent_repos(). The call
\* overlaps another one that has loaded and not yet saved.
RaceLoad(p) ==
    \E moveOk \in MoveOutcomes :
       LET loaded == load_frequent_repos(Files, moveOk)
           busy == {q \in Procs \ {p} : race[q].pc = "loaded"}
       IN  /\ race[p].pc = "idle"
           /\ SetFiles(loaded.fs)
           /\ race' = [q \in Procs |->
                         IF q = p
                         THEN [race[q] EXCEPT !.pc = "loaded", !.repos = loaded.repos,
                                              !.overlapped = busy # {}]
                         ELSE IF q \in busy
                              THEN [race[q] EXCEPT !.overlapped = TRUE]
                              ELSE race[q]]
           /\ UNCHANGED <<syncVars, trVars, progVars, lastCall>>

\* A mutation of RaceSave: the records loaded are dropped and only the new
\* record is saved.
RaceSaveOnlyNew(p) ==
    /\ race[p].pc = "loaded"
    /\ SetFiles(save_frequent_repos(Files, <<race[p].repo>>))
    /\ race' = [race EXCEPT ![p].pc = "done"]
    /\ UNCHANGED <<syncVars, trVars, progVars, lastCall>>

\* add_frequent_repo, second step: the update of the list loaded earlier and
\* save_frequent_repos(repos).
RaceSave(p) ==
    /\ race[p].pc = "loaded"
    /\ SetFiles(save_frequent_repos(Files, Upsert(race[p].repos, race[p].repo)))
    /\ race' = [race EXCEPT ![p].pc = "done"]
    /\ UNCHANGED <<syncVars, trVars, progVars, lastCall>>

RaceNext == \E p \in Procs : RaceLoad(p) \/ RaceSave(p)

InitRace == SyncIdle /\ RegInit /\ RaceInit /\ TrIdle /\ ProgIdle

SpecRace == InitRace /\ [][RaceNext]_vars

\* The texts handed to translate_git_error: up to MaxChunks pieces of git
\* output one after the other, messages in lower and in mixed case among them.
MaxChunks == 2

Chunks ==
    { PhraseNotFound, PhraseAuth, PhraseSsh, PhraseDns, PhraseOverwrite,
      PhraseNotRepo, PhraseNotEmpty,
      <<"Repository", "Not", "found">>, <<"Authentication", "FAILED">>,
      <<"local changes to the following files would be overwritten by merge">>,
      <<"fatal:">>, <<"\n">> }

RECURSIVE Texts(_)
Texts(n) ==
    IF n = 0 THEN {<<>>}
    ELSE Texts(n - 1) \cup {t \o c : t \in Texts(n - 1), c \in Chunks}

TrInit ==
    /\ trText \in Texts(MaxChunks)
    /\ trResult = NoResult

\* A call translate_git_error(stderr).
Translate ==
    /\ trResult = NoResult
    /\ trResult' = translate_git_error(trText)
    /\ UNCHANGED <<syncVars, regVars, raceVars, trText, progVars>>

InitTranslate == SyncIdle /\ RegIdle /\ RaceIdle /\ TrInit /\ ProgIdle

SpecTranslate == InitTranslate /\ [][Translate]_vars

\* ------------------------------------------------------- parse_git_progress
\* A line is a sequence of tokens: labels, numbers, punctuation, sizes, speeds.
NumberToks == {"0", "45", "90", "100", "450", "1000"}

\* int(match.group(n))
IntOf(tok) ==
    CASE tok = "0" -> 0
      [] tok = "45" -> 45
      [] tok = "90" -> 90
      [] tok = "100" -> 100
      [] tok = "450" -> 450
      [] tok = "1000" -> 1000

\* \d+
IsDigits(tok) == tok \in NumberToks

\* [\d.]+\s*[KMGT]?i?B  and  [\d.]+\s*[KMGT]?i?B/s : "258 bytes", which git
\* prints below 1 KiB, has no capital B.
SizeToks == {"2.3 MiB", "258 bytes"}
SpeedToks == {"1.2 MiB/s"}
IsSize(tok) == tok \in {"2.3 MiB"}
IsSpeed(tok) == tok \in {"1.2 MiB/s"}

At(line, i) == IF i \in DOMAIN line THEN line[i] ELSE "<end>"

\* \s*
RECURSIVE SkipSpace(_, _)
SkipSpace(line, i) ==
    IF i \in DOMAIN line /\ IsSpace(line[i]) THEN SkipSpace(line, i + 1) ELSE i

\* <label>\s*(\d+)%\s*\((\d+)/(\d+)\) with the label at position i: whether it
\* matches, where the three groups are and where the match ends.
MatchCounts(line, i) ==
    LET a == SkipSpace(line, i + 1)
        b == SkipSpace(line, a + 2)
    IN  [ok |-> /\ IsDigits(At(line, a))
                /\ At(line, a + 1) = "%"
                /\ At(line, b) = "("
                /\ IsDigits(At(line, b + 1))
                /\ At(line, b + 2) = "/"
                /\ IsDigits(At(line, b + 3))
                /\ At(line, b + 4) = ")",
         percent |-> a, current |-> b + 1, total |-> b + 3, next |-> b + 5]

\* (?:,\s*(size)\s*\|\s*(speed))? tried at position i.
MatchTransfer(line, i) ==
    LET c == SkipSpace(line, i + 1)
        d == SkipSpace(line, c + 1)
        e == SkipSpace(line, d + 1)
    IN  [ok |-> /\ At(line, i) = ","
                /\ IsSize(At(line, c))
                /\ At(line, d) = "|"
                /\ IsSpeed(At(line, e)),
         size |-> c, speed |-> e]

\* re.search: the leftmost position where the pattern matches, 0 for no match.
Search(line, labels) ==
    LET hits == {i \in DOMAIN line : line[i] \in labels /\ MatchCounts(line, i).ok}
    IN  IF hits = {} THEN 0 ELSE CHOOSE i \in hits : \A k \in hits : i <= k

\* match.group(1).lower() of the compression pattern.
Operation(label) ==
    IF label = "Compressing objects:" THEN "compressing" ELSE "decompressing"

parse_git_progress(line) ==
    LET rec == Search(line, {"Receiving objects:"})
        res == Search(line, {"Resolving deltas:"})
        com == Search(line, {"Compressing objects:", "Decompressing objects:"})
        at == IF rec # 0 THEN rec ELSE IF res # 0 THEN res ELSE com
        m == MatchCounts(line, at)
        t == MatchTransfer(line, m.next)
    IN  IF at = 0 THEN NoInfo
        ELSE [type |-> IF rec # 0 THEN "receiving"
                       ELSE IF res # 0 THEN "resolving"
                       ELSE Operation(line[at]),
              percent |-> IntOf(line[m.percent]),
              current |-> IntOf(line[m.current]),
              total |-> IntOf(line[m.total]),
              size |-> IF rec # 0 /\ t.ok THEN line[t.size] ELSE None,
              speed |-> IF rec # 0 /\ t.ok THEN line[t.speed] ELSE None]

\* ------------------------------------- advanced_progress_monitor: the display
\* The lines git may write to stderr during a transfer.
Labels ==
    {"Receiving objects:", "Resolving deltas:", "Compressing objects:",
     "Decompressing objects:", "Counting objects:"}

Tails ==
    { <<>>,
      <<",", " ", "2.3 MiB", " ", "|", " ", "1.2 MiB/s">>,
      <<",", " ", "258 bytes", " ", "|", " ", "1.2 MiB/s">>,
      <<",", " ", "done.">> }

LineShapes ==
    [prefix : {<<>>, <<"remote:", " ">>}, label : Labels,
     percent : {"0", "45", "90", "100"}, tail : Tails]

Render(shape) ==
    shape.prefix \o <<shape.label, " ", shape.percent, "%", " ", "(", "450", "/", "1000", ")">>
      \o shape.tail \o <<"\n">>

OtherLines ==
    { <<"\n">>, <<"done.", "\n">>, <<"fatal:", "boom", "\n">>,
      <<"Receiving objects:", " ", "45", "\n">>,
      <<"Receiving objects:", " ", "45", " ", "%", " ", "(", "450", "/", "1000", ")", "\n">> }

ProgressLines == {Render(shape) : shape \in LineShapes} \cup OtherLines

\* "done" in output.lower() or "complete" in output.lower()
SaysDone(line) == \E i \in DOMAIN line : line[i] \in {"done.", "complete"}

Min(a, b) == IF a <= b THEN a ELSE b

\* receiving_task / resolving_task: add_task on the first event, then update.
UpdateTask(task, info, speed) ==
    [added |-> TRUE,
     total |-> IF task.added THEN task.total ELSE info.total,
     completed |-> info.current,
     speed |-> speed]

\* The body of the loop of advanced_progress_monitor for one line read.
UpdateBars(bars, info, line) ==
    IF info.type = "receiving"
      THEN [bars EXCEPT !.receiving_task = UpdateTask(@, info, info.speed),
                        !.main = 10 * info.percent]
    ELSE IF info.type = "resolving"
      THEN [bars EXCEPT !.resolving_task = UpdateTask(@, info, ""),
                        !.main = Min(900 + info.percent, 1000)]
    ELSE IF info.type \in {"compressing", "decompressing"}
      THEN [bars EXCEPT !.main = 10 * info.percent,
                        !.description = info.type]
    ELSE IF SaysDone(line)
      THEN [bars EXCEPT !.main = 1000]
    ELSE bars

\* output = process.stderr.readline(); progress_info = parse_git_progress(output.strip());
\* the bars are updated.
ProgressLine ==
    \E line \in ProgressLines :
       /\ output' = line
       /\ progress_info' = parse_git_progress(Strip(line))
       /\ progress' = UpdateBars(progress, progress_info', line)
       /\ UNCHANGED <<syncVars, regVars, raceVars, trVars>>

InitProgress == SyncIdle /\ RegIdle /\ RaceIdle /\ TrIdle /\ ProgIdle

SpecProgress == InitProgress /\ [][ProgressLine]_vars

\* A transfer as git reports it: receiving events with percentages that do
\* not go down, then resolving events with percentages that do not go down.
FollowsInTransfer(last, info) ==
    \/ /\ info.type = "receiving"
       /\ last.type \in {None, "receiving"}
       /\ info.percent >= last.percent
    \/ /\ info.type = "resolving"
       /\ last.type \in {None, "receiving"}
    \/ /\ info.type = "resolving"
       /\ last.type = "resolving"
       /\ info.percent >= last.percent

\* One turn of the loop of advanced_progress_monitor on the next line of such
\* a transfer.
TransferLine ==
    \E line \in ProgressLines :
       /\ FollowsInTransfer(progress_info, parse_git_progress(Strip(line)))
       /\ output' = line
       /\ progress_info' = parse_git_progress(Strip(line))
       /\ progress' = UpdateBars(progress, progress_info', line)
       /\ UNCHANGED <<syncVars, regVars, raceVars, trVars>>

SpecTransfer == InitProgress /\ [][TransferLine]_vars

\* ==================================================================== claims
Spawned(cmd) == \E i \in DOMAIN spawned : spawned[i] = cmd
ExitedWith(cmd, codes) == \E i \in DOMAIN exited : exited[i].cmd = cmd /\ exited[i].rc \in codes
Failing == ExitCodes \ {0}

\* What the caller can tell from the value returned: True or False.
Outcome == IF pc # "done" THEN "running" ELSE IF retval THEN "Succeeded" ELSE "Failed"

\* The status query reported a dirty tree and the operator declined to stash.
DeclinedStash == hasChanges /\ Len(answers) >= 1 /\ ~answers[1]

\* C1: in a pull run where the tree is dirty and the operator declines to
\* stash, the pull command is never spawned and the run ends in the aborted
\* outcome, which is neither success nor failure.
C1_DeclinedStashAbortsPull ==
    DeclinedStash =>
       /\ ~Spawned(PullCommand)
       /\ pc = "done" => Outcome \notin {"Succeeded", "Failed"}

\* C2: in a pull run where stash push succeeded, the pull exited 0 and stash
\* pop exited non-zero, the value returned differs from the value a plain
\* successful pull returns (True), so that the caller can tell the two apart.
C2_PopFailureReturnsWarning ==
    (/\ pc = "done"
     /\ ExitedWith(StashPushCommand, {0})
     /\ ExitedWith(PullCommand, {0})
     /\ ExitedWith(StashPopCommand, Failing)) => retval # TRUE

\* C3: in a pull run where the operator accepted stashing and stash push exited
\* non-zero, the run has returned failure and neither the pull command nor
\* stash pop is ever spawned.
C3_StashFailureFailsPull ==
    ExitedWith(StashPushCommand, Failing) =>
       /\ pc = "done"
       /\ retval = FALSE
       /\ ~Spawned(PullCommand)
       /\ ~Spawned(StashPopCommand)

\* C3 witness: the operator accepted, stash push failed, the run is over.
C3_Witness ==
    /\ pc = "done"
    /\ hasChanges
    /\ answers = <<TRUE>>
    /\ ExitedWith(StashPushCommand, Failing)
    /\ "failed_stash" \in printed

\* C4: in a pull run where stash push succeeded and the pull exited 0, the
\* operator is asked nothing more, and stash pop has been spawned by the time
\* the run returns (a run cut short by a failing Popen aside).
C4_PopAlwaysFollowsStashedPull ==
    (ExitedWith(StashPushCommand, {0}) /\ ExitedWith(PullCommand, {0})) =>
       /\ Len(answers) = 1
       /\ (pc = "done" /\ "unexpected" \notin printed) => Spawned(StashPopCommand)

\* C5: when the clone or pull command exits non-zero, the text handed to the
\* error translator is the text the process wrote to its error stream, and
\* the category reported is the one that text determines.
C5_TranslatorGetsStderr ==
    "error" \in printed =>
       /\ stderrArg = Flatten(childErr)
       /\ category = translate_git_error(Flatten(childErr)).category

\* The calling thread waits for something only the child can provide:
\* process.wait() for the exit, or readline() for a line or the end of stderr.
ParentBlocked ==
    \/ pc = "wait" /\ PollIsNone
    \/ pc = "monitor" /\ errPipe = <<>> /\ PollIsNone

\* C6: clone and pull never reach a state where the child is blocked writing
\* into a full pipe while the parent is blocked waiting for the child or for
\* the other stream.
C6_NoPipeDeadlock == ~(ChildBlocked /\ ParentBlocked)

\* C7: whenever clone or pull has returned, the spinner thread it started has
\* ended.
C7_SpinnerStoppedAtReturn == pc = "done" => spinner # "alive"

\* The records the structured store holds.
Stored == JsonLoad(jsonFile)

UniqueUrls(repos) ==
    \A i, j \in DOMAIN repos : repos[i].url = repos[j].url => i = j

HasUrl(repos, url) == \E i \in DOMAIN repos : repos[i].url = url

\* C8: starting from an empty registry, after any sequence of add calls the
\* store holds at most one record per url, and an add whose url was already
\* there leaves the number of records unchanged.
C8_AddsKeepOneRecordPerUrl ==
    /\ jsonFile.fmt = "json" => UniqueUrls(Stored)
    /\ (lastCall.fn = "add" /\ HasUrl(lastCall.loaded, lastCall.repo.url)) =>
          Len(Stored) = Len(lastCall.loaded)

\* C8 witness: an add of a url that was already there, into a registry that
\* holds every url.
C8_Witness ==
    /\ lastCall.fn = "add"
    /\ HasUrl(lastCall.loaded, lastCall.repo.url)
    /\ Len(Stored) = Cardinality(Urls)

\* C9: whatever loads (legacy migration included), adds and removes produced
\* it, the structured store never holds two records with the same url.
C9_OneRecordPerUrlAlways == jsonFile.fmt = "json" => UniqueUrls(Stored)

\* C10: add(record) is an upsert by url. When a record with the url exists,
\* the first such record gets the new path and nothing else changes (its name,
\* its position, every other record); when none exists the record is appended
\* after the existing records, which keep content and order. Either way the
\* store holds the result.
C10_AddIsUpsert ==
    lastCall.fn = "add" =>
       LET old == lastCall.loaded
           new == Stored
           r == lastCall.repo
       IN  /\ jsonFile.fmt = "json"
           /\ IF HasUrl(old, r.url)
                THEN /\ Len(new) = Len(old)
                     /\ \E k \in DOMAIN old :
                          /\ old[k].url = r.url
                          /\ \A j \in 1..(k - 1) : old[j].url # r.url
                          /\ new[k].name = old[k].name
                          /\ new[k].url = old[k].url
                          /\ new[k].path = r.path
                          /\ \A i \in DOMAIN old : i # k => new[i] = old[i]
                ELSE /\ Len(new) = Len(old) + 1
                     /\ new[Len(new)] = r
                     /\ \A i \in DOMAIN old : new[i] = old[i]

\* C10 witness: an add that found its url on a record with another name and
\* another path, in a registry of at least two records.
C10_Witness ==
    /\ lastCall.fn = "add"
    /\ Len(lastCall.loaded) >= 2
    /\ \E k \in DOMAIN lastCall.loaded :
          /\ lastCall.loaded[k].url = lastCall.repo.url
          /\ lastCall.loaded[k].name # lastCall.repo.name
          /\ lastCall.loaded[k].path # lastCall.repo.path

\* The step is a call remove_frequent_repo(index) with index < 0 or
\* index >= the number of records.
RemoveOutOfRange ==
    /\ lastCall'.fn = "remove"
    /\ (lastCall'.index < 0 \/ lastCall'.index >= Len(lastCall'.loaded))

\* C11 (as stated): remove(index) with index out of range returns failure and
\* leaves the structured registry file unchanged.
C11_FailedRemoveKeepsFile ==
    [][RemoveOutOfRange => (~lastCall'.ret /\ jsonFile' = jsonFile)]_vars

\* C11 (amended): remove(index) with index out of range returns failure and
\* writes nothing itself: a structured store that exists and parses is left
\* as it is, with the other files; the files change only as the load inside
\* the call changes them (legacy migration, an unparseable store moved aside).
C11_FailedRemoveWritesNothing ==
    [][RemoveOutOfRange =>
         /\ ~lastCall'.ret
         /\ jsonFile.fmt = "json" => UNCHANGED <<jsonFile, txtFile, bakFile>>
         /\ \E moveOk \in BOOLEAN : Files' = load_frequent_repos(Files, moveOk).fs]_vars

\* C11 witness: a remove past the end of a registry that holds records has
\* returned failure.
C11_Witness ==
    /\ lastCall.fn = "remove"
    /\ ~lastCall.ret
    /\ Len(lastCall.loaded) >= 1
    /\ lastCall.index >= Len(lastCall.loaded)
    /\ jsonFile.fmt = "json"

\* C12: remove(index) with 0 <= index < length returns success, and the store
\* then holds the previous sequence without the record at that 0-based
\* position, the others in their order.
C12_RemoveDeletesThatRecord ==
    (lastCall.fn = "remove" /\ 0 <= lastCall.index /\ lastCall.index < Len(lastCall.loaded)) =>
       LET old == lastCall.loaded
           new == Stored
       IN  /\ lastCall.ret
           /\ jsonFile.fmt = "json"
           /\ Len(new) = Len(old) - 1
           /\ \A i \in 1..Len(new) :
                new[i] = IF i <= lastCall.index THEN old[i] ELSE old[i + 1]

\* C12 witness: the middle record of three was removed.
C12_Witness ==
    /\ lastCall.fn = "remove"
    /\ lastCall.ret
    /\ lastCall.index = 1
    /\ Len(lastCall.loaded) = 3
    /\ lastCall.loaded[1] # lastCall.loaded[2]

\* Record lists handed to save_frequent_repos to try the round trip.
RoundTripInputs == {<<>>} \cup {<<r>> : r \in Records} \cup {Stored}

\* C13: for a well-formed registry, saving what load() returned leaves the
\* stored records as they were (same records, same order, same name, url and
\* path), and load() after save(records) returns records.
C13_SaveLoadRoundTrip ==
    jsonFile.fmt = "json" =>
       /\ LET loaded == load_frequent_repos(Files, TRUE)
              saved == save_frequent_repos(loaded.fs, loaded.repos)
          IN  /\ saved.json.fmt = "json"
              /\ JsonLoad(saved.json) = Stored
              /\ saved = Files
       /\ \A records \in RoundTripInputs :
            load_frequent_repos(save_frequent_repos(Files, records), TRUE).repos = records

\* C13 witness: a store of several records, with a path that is None and a
\* path that is not.
C13_Witness ==
    /\ jsonFile.fmt = "json"
    /\ Len(Stored) >= 2
    /\ \E i, j \in DOMAIN Stored : Stored[i].path = None /\ Stored[j].path # None

\* The step is a call of load() that finds no structured store and a legacy file.
MigratingLoad ==
    /\ jsonFile = NoFile
    /\ txtFile.exists
    /\ lastCall'.fn = "load"

\* The lines of the legacy file that hold text, and the text of a line (the
\* line without the whitespace around it).
NonBlank(lines) == {i \in DOMAIN lines : Strip(lines[i]) # <<>>}
LineText(line) == Strip(line)[1]
DistinctLines(lines) ==
    \A i, j \in NonBlank(lines) : lines[i] = lines[j] => i = j

\* C14: when no structured store exists and the legacy file holds N distinct
\* non-empty lines, load() returns exactly N records in file order, each with
\* name = url = the text of its line and path = None, the structured store
\* holds them, and the legacy file is gone.
C14_MigrationMakesOneRecordPerLine ==
    [][(MigratingLoad /\ DistinctLines(txtFile.lines)) =>
         LET lines == txtFile.lines
             got == lastCall'.loaded
         IN  /\ Len(got) = Cardinality(NonBlank(lines))
             /\ \A j \in NonBlank(lines) :
                  got[Cardinality({i \in NonBlank(lines) : i <= j})] =
                     [name |-> LineText(lines[j]), url |-> LineText(lines[j]), path |-> None]
             /\ jsonFile'.fmt = "json"
             /\ JsonLoad(jsonFile') = got
             /\ txtFile' = NoTxt]_vars

\* C14 witness: a load has migrated two distinct lines.
C14_Witness ==
    /\ lastCall.fn = "load"
    /\ Len(lastCall.loaded) = 2
    /\ lastCall.loaded[1] = [name |-> "u1", url |-> "u1", path |-> None]
    /\ lastCall.loaded[2] = [name |-> "u2", url |-> "u2", path |-> None]
    /\ Stored = lastCall.loaded
    /\ txtFile = NoTxt

\* C15: migration happens at most once: after a load() that migrated, a later
\* load() does not take the migration branch, returns the same records and
\* changes no file.
C15_MigrationOnlyOnce ==
    [][MigratingLoad =>
         /\ jsonFile' # NoFile
         /\ \A moveOk \in BOOLEAN :
              LET again == load_frequent_repos(Files', moveOk)
              IN  again.repos = lastCall'.loaded /\ again.fs = Files']_vars

\* C15 witness: a load has migrated records, the legacy file is gone, and
\* another load would return them from the structured store.
C15_Witness ==
    /\ lastCall.fn = "load"
    /\ Len(lastCall.loaded) >= 1
    /\ \A i \in DOMAIN lastCall.loaded : lastCall.loaded[i].name = lastCall.loaded[i].url
    /\ txtFile = NoTxt
    /\ jsonFile.fmt = "json"
    /\ load_frequent_repos(Files, TRUE).repos = lastCall.loaded

\* The step is a call of load() that finds a structured store it cannot parse.
CorruptLoad ==
    /\ jsonFile.fmt = "raw"
    /\ lastCall'.fn = "load"

\* C16: when the structured store exists but does not parse as JSON, load()
\* returns the empty list, and afterwards the .bak file holds exactly the bytes
\* of the unparseable file.
C16_CorruptStoreIsBackedUp ==
    [][CorruptLoad => (lastCall'.loaded = <<>> /\ bakFile' = jsonFile)]_vars

\* The unparseable contents that are on disk, in the store or in its backup.
CorruptOnDisk == {g \in Garbage : g \in {jsonFile, bakFile}}

\* C17: the bytes of a structured file that load() found unparseable are never
\* destroyed: whichever operation runs, unparseable contents that were on disk
\* before it are on disk, in the store or in the backup, after it.
C17_CorruptBytesNeverDestroyed ==
    [][\A g \in CorruptOnDisk : g \in CorruptOnDisk']_vars

\* Both invocations have returned from add_frequent_repo.
BothAdded == \A p \in Procs : race[p].pc = "done"

\* The registry holds the record that invocation p added.
Kept(p) ==
    /\ jsonFile.fmt = "json"
    /\ \E i \in DOMAIN Stored :
         Stored[i].url = race[p].repo.url /\ Stored[i].path = race[p].repo.path

\* C18: two processes run add() for different urls without locking: every
\* execution in which the two calls do not overlap keeps both records (the
\* witness is the interleaving that loses one).
C18_SequentialAddsKeepBoth ==
    (BothAdded /\ \A p \in Procs : ~race[p].overlapped) => \A p \in Procs : Kept(p)

\* C18 witness: both calls have returned, they overlapped, and the registry
\* holds one record, that of the second process only.
C18_Witness ==
    /\ BothAdded
    /\ \A p \in Procs : race[p].overlapped
    /\ jsonFile.fmt = "json"
    /\ Len(Stored) = 1
    /\ Stored[1] = race["p2"].repo
    /\ ~HasUrl(Stored, race["p1"].repo.url)

\* The options of a clone as the claim lists them, for a ref given or not.
CloneOptions(refGiven) ==
    (IF refGiven THEN <<"--branch", branch>> ELSE <<>>)
      \o (IF shallow THEN <<"--depth", "1">> ELSE <<>>)
      \o <<"url", "dest">>

\* A clone run has spawned its command.
CloneSpawned == op = "clone" /\ spawned # <<>>

\* C19 as stated: the argument vector of the spawned clone command is exactly
\* the tool, clone, --branch <ref> iff a ref was supplied, --depth 1 iff
\* shallow was requested, the url, the destination, and nothing else.
C19_CloneArgvAsStated ==
    CloneSpawned => spawned[1] = <<"git", "clone">> \o CloneOptions(branch # None)

\* C19 amended: the argument vector is the tool, clone, --progress, then
\* --branch <ref> iff a non-empty ref was supplied, then --depth 1 iff shallow
\* was requested, then the url, then the destination, and nothing else.
C19_CloneArgvWithProgress ==
    CloneSpawned =>
       /\ Len(spawned) = 1
       /\ spawned[1] = <<"git", "clone", "--progress">>
                          \o CloneOptions(branch \notin {None, ""})

\* C19 witness: a clone with a ref and shallow requested has been spawned.
C19_Witness ==
    /\ CloneSpawned
    /\ branch = "v1"
    /\ shallow
    /\ Len(spawned[1]) = 9

\* The rules of the error translator as the specification numbers them: the
\* phrase of each rule and its category.
RulePhrases ==
    << <<"repository", "not", "found">>,
       <<"authentication", "failed">>,
       <<"permission", "denied", "(publickey)">>,
       <<"could", "not", "resolve", "host">>,
       <<"local changes to the following files would be overwritten by merge">>,
       <<"not", "a", "git", "repository">>,
       <<"already", "exists", "and is not an empty directory">> >>

RuleCategories ==
    << "RepositoryNotFound", "AuthenticationFailed", "SshPermissionDenied",
       "DnsResolutionFailed", "WorkingTreeWouldBeOverwritten",
       "NotAGitRepository", "DestinationNotEmpty" >>

\* The rules whose phrase occurs in the text, compared case-insensitively.
RulesHit(text) ==
    {n \in DOMAIN RulePhrases : Contains(LowerText(text), RulePhrases[n])}

\* C20: for every input text the error translator returns the category of the
\* lowest-numbered rule whose phrase occurs in the text compared
\* case-insensitively, and Unknown when no phrase occurs.
C20_LowestRuleWins ==
    trResult # NoResult =>
       trResult.category =
          IF RulesHit(trText) = {} THEN "Unknown"
          ELSE RuleCategories[CHOOSE n \in RulesHit(trText) :
                                 \A m \in RulesHit(trText) : n <= m]

\* The text handed to the translator holds the phrase of rule n, in any case.
HasPhrase(n) == Contains(LowerText(trText), RulePhrases[n])

\* C21 as stated: any text that contains 'authentication failed' in any letter
\* case is classified as AuthenticationFailed, whatever surrounds it, the
\* phrase of another rule included.
C21_AuthPhraseAlwaysWins ==
    (trResult # NoResult /\ HasPhrase(2)) => trResult.category = "AuthenticationFailed"

\* C21 amended: a text that contains 'authentication failed' in any letter
\* case and does not contain 'repository not found' is classified as
\* AuthenticationFailed, whatever else surrounds it, the phrase of a later
\* rule included.
C21_AuthPhraseWinsAfterNotFound ==
    (trResult # NoResult /\ HasPhrase(2) /\ ~HasPhrase(1)) =>
       trResult.category = "AuthenticationFailed"

\* C21 witness: a text in mixed case holding the authentication phrase and
\* the phrase of a later rule has been classified as AuthenticationFailed.
C21_Witness ==
    /\ trResult.category = "AuthenticationFailed"
    /\ Contains(trText, <<"Authentication", "FAILED">>)
    /\ \E n \in 3..7 : HasPhrase(n)

\* C22: when no rule phrase occurs in the stderr text, the category is Unknown
\* and the text returned as remediation is the input text itself, with nothing
\* added, removed or trimmed.
C22_UnknownReturnsRawText ==
    (trResult # NoResult /\ RulesHit(trText) = {}) =>
       (trResult.category = "Unknown" /\ trResult.raw = trText)

\* C23: when spawning the external command fails because the executable is
\* not found, at any step of clone or pull, no exception reaches the caller
\* and the outcome reported is the category ToolingMissing.
C23_SpawnFailureIsToolingMissing ==
    [][SpawnFault => (pc' = "done" /\ ~retval' /\ category' = "ToolingMissing")]_vars

\* C24: a fault raised inside clone or pull once the operation is under way
\* (at a spawn, in progress monitoring, in a wait, in a prompt, in stash
\* handling) never leaves the function: the function has returned False and
\* has printed the diagnostic.
C24_FaultsAreCaught ==
    /\ pc # "raised"
    /\ "unexpected" \in printed => (pc = "done" /\ retval = FALSE)

\* C24 witness: a fault was raised after the clone or pull child had been
\* spawned and while it was running, and the function has returned False.
C24_Witness ==
    /\ pc = "done"
    /\ "unexpected" \in printed
    /\ ~retval
    /\ childState = "running"
    /\ spawned # <<>>

\* The messages that report a failed command: the translated error of clone
\* or pull, the stash failure, the warning about stash pop.
FailureReports == {"error", "failed_stash", "warn_pop"}

\* C25: every external command that exits non-zero during clone or pull
\* (clone, status, stash push, pull, stash pop) has a failure or a warning
\* reported; none is ignored with the workflow going on as if it had succeeded.
C25_NoFailedCommandIgnored ==
    (pc = "done" /\ "unexpected" \notin printed) =>
       \A i \in DOMAIN exited :
          exited[i].rc # 0 => printed \cap FailureReports # {}

\* C30: in any pull run, stash pop is spawned only if a stash push was spawned
\* and exited 0 earlier in the run; a run in which the operator declined to
\* stash, or in which no stash was pushed, never runs stash pop.
C30_PopOnlyAfterPush ==
    Spawned(StashPopCommand) =>
       /\ Spawned(StashPushCommand)
       /\ ExitedWith(StashPushCommand, {0})

\* C26: a clone or pull whose child process is still running when the maximum
\* duration expires terminates the child and returns Failed with the category
\* TimedOut, so a child that never exits cannot keep the operation from
\* returning: every run returns.
C26_OperationAlwaysReturns == <>(pc = "done")

\* A line has just been read and parsed as an event of one of these types.
EventRead(types) == progress_info'.type \in types /\ output' # <<>>

\* C27: the overall progress value, here in tenths, is set by a Receiving
\* event with percent P to 0.9 * P and by a Resolving event with percent P to
\* 90 + P / 10.
C27_PhasesScaleIntoOneBar ==
    [][/\ EventRead({"receiving"}) => progress'.main = 9 * progress_info'.percent
       /\ EventRead({"resolving"}) => progress'.main = 900 + progress_info'.percent]_vars

\* C28: a Compressing or Decompressing event changes only the label of the
\* progress indicator: the overall progress value is the same after the event
\* as before it.
C28_CompressionKeepsBar ==
    [][EventRead({"compressing", "decompressing"}) => progress'.main = progress.main]_vars

\* What the specification makes of a line of one of its forms: the phase of
\* the label, the numbers, and size and speed when the line carries them.
Phase(label) ==
    CASE label = "Receiving objects:" -> "receiving"
      [] label = "Resolving deltas:" -> "resolving"
      [] label = "Compressing objects:" -> "compressing"
      [] label = "Decompressing objects:" -> "decompressing"
      [] OTHER -> None

Expected(shape) ==
    IF Phase(shape.label) = None THEN NoInfo
    ELSE [type |-> Phase(shape.label), percent |-> IntOf(shape.percent),
          current |-> 450, total |-> 1000,
          size |-> IF shape.label = "Receiving objects:" /\ Len(shape.tail) = 7
                     THEN shape.tail[3] ELSE None,
          speed |-> IF shape.label = "Receiving objects:" /\ Len(shape.tail) = 7
                      THEN shape.tail[7] ELSE None]

\* C29: the parser maps a line `Receiving objects: P% (C/T)[, SIZE | SPEED]`
\* to a Receiving event with P, C, T and size and speed as written (absent when
\* not there), a `Resolving deltas:` line to a Resolving event, a
\* `Compressing|Decompressing objects:` line to the matching phase, and every
\* other line to None.
C29_ParserMapsLines ==
    /\ \A shape \in LineShapes :
         (shape.prefix = <<>> /\ output = Render(shape)) => progress_info = Expected(shape)
    /\ output \in OtherLines => progress_info = NoInfo

\* C31: whenever a pull workflow terminates, every stash entry it pushed has
\* been popped successfully or the operator has been told that a stash entry
\* remains; this includes the runs where the pull command fails after a
\* successful stash push and the runs where stash pop fails.
C31_NoSilentStashLeftBehind ==
    (pc = "done" /\ "unexpected" \notin printed /\ ExitedWith(StashPushCommand, {0})) =>
       \/ ExitedWith(StashPopCommand, {0})
       \/ "warn_pop" \in printed

\* C32: in a single pull run the operator is asked the stash decision at most
\* once, and only when the status query reported a dirty working tree.
C32_AskedAtMostOnce ==
    /\ Len(answers) <= 1
    /\ answers # <<>> => hasChanges

\* The status query of a pull run has returned its output.
StatusKnown == op = "pull" /\ exited # <<>>

\* C33: when the status output is empty after trimming whitespace the tree is
\* treated as clean: the operator is not prompted, neither stash push nor
\* stash pop is spawned, and the pull command is the next command spawned; any
\* other status output is treated as dirty: the operator is prompted before
\* the pull command is spawned.
C33_EmptyStatusMeansClean ==
    StatusKnown =>
       IF Strip(statusOut) = <<>>
         THEN /\ ~hasChanges
              /\ answers = <<>> /\ pc \notin {"ask_stash", "ask_restore"}
              /\ ~Spawned(StashPushCommand) /\ ~Spawned(StashPopCommand)
              /\ Len(spawned) >= 2 => spawned[2] = PullCommand
         ELSE /\ hasChanges
              /\ answers = <<>> => (pc \in {"ask_stash", "done"} /\ Len(spawned) = 1)

\* C33 witness: the status output was a lone newline and the pull command has
\* been spawned without a prompt.
C33_Witness ==
    /\ StatusKnown
    /\ statusOut = <<"\n">>
    /\ Spawned(PullCommand)
    /\ answers = <<>>

\* The commands of a pull run in the order the workflow names them.
PullOrder == <<StatusCommand, StashPushCommand, PullCommand, StashPopCommand>>
Rank(cmd) == CHOOSE n \in DOMAIN PullOrder : PullOrder[n] = cmd

\* The commands spawned so far follow PullOrder, status first and none twice,
\* and each but the last has been seen to terminate before the next was
\* spawned; the pull child has exited when something was spawned after it.
SpawnedInOrder ==
    /\ \A i \in DOMAIN spawned : \E n \in DOMAIN PullOrder : PullOrder[n] = spawned[i]
    /\ spawned # <<>> => spawned[1] = StatusCommand
    /\ \A i, j \in DOMAIN spawned : i < j => Rank(spawned[i]) < Rank(spawned[j])
    /\ \A i \in DOMAIN spawned :
         i < Len(spawned) =>
            /\ i <= Len(exited)
            /\ exited[i].cmd = spawned[i]
            /\ spawned[i] = PullCommand => childState = "exited"

\* C34: in every pull run the external commands are spawned in the order
\* status, stash push, pull, stash pop, each at most once, each only after the
\* one before it has terminated, and none after the workflow has returned.
C34_CommandsInOrder ==
    /\ [](op = "pull" => SpawnedInOrder)
    /\ [][pc = "done" => spawned' = spawned]_vars

\* C34 witness: a pull run has spawned all four commands and has returned.
C34_Witness ==
    /\ op = "pull"
    /\ pc = "done"
    /\ spawned = PullOrder
    /\ Len(exited) = 4

\* C35: the legacy file is deleted only after the structured store has been
\* written completely with the migrated records: when the write fails during
\* migration the legacy file is still there with its content, and load()
\* returns (the empty list).
C35_LegacyKeptUnlessStoreWritten ==
    [][MigratingLoad =>
         /\ txtFile' # txtFile =>
               /\ txtFile' = NoTxt
               /\ jsonFile'.fmt = "json"
               /\ JsonLoad(jsonFile') = lastCall'.loaded
               /\ Len(lastCall'.loaded) = Cardinality(NonBlank(txtFile.lines))
         /\ jsonFile'.fmt # "json" =>
               /\ txtFile' = txtFile
               /\ lastCall'.loaded = <<>>]_vars

\* C35 witness: a migration whose write was cut short has returned the empty
\* list and the legacy file still holds its urls.
C35_Witness ==
    /\ lastCall.fn = "load"
    /\ lastCall.loaded = <<>>
    /\ jsonFile = Truncated
    /\ txtFile.exists
    /\ NonBlank(txtFile.lines) # {}

\* C36: pull called on a path without a .git directory returns failure
\* without spawning any external command and without prompting the operator.
C36_NotARepoSpawnsNothing ==
    (op = "pull" /\ ~isRepo) =>
       /\ pc \in {"start", "done"}
       /\ spawned = <<>>
       /\ answers = <<>> /\ "prompt" \notin printed
       /\ pc = "done" => (retval = FALSE /\ printed = {"not_repo"})

\* C36 witness: a pull on a path without a .git directory has returned.
C36_Witness ==
    /\ op = "pull"
    /\ ~isRepo
    /\ pc = "done"
    /\ ~retval

\* C37: during one clone or pull, for progress lines in which the Receiving
\* percentages and then the Resolving percentages do not go down, the overall
\* progress value (here in tenths) never goes down from one update to the
\* next and stays within 0..100.
C37_BarNeverGoesBack ==
    [][/\ progress'.main >= progress.main
       /\ progress'.main \in 0..1000]_vars

====
